---- MODULE Spec2Model ----
(***************************************************************************)
(* Model of src/app.py: process_data (the allocator), and the optional     *)
(* group-and-sum step of main (the aggregator).                            *)
(*                                                                         *)
(* A DataFrame is a record [len |-> number of rows, col |-> function from  *)
(* the names of the columns present to sequences of len cells].  The row   *)
(* index is the position 1..len.  Dimension cells are strings.  Numeric    *)
(* cells are exact rationals <<numerator, denominator>> in lowest terms    *)
(* with denominator > 0; the null cell (NaN) is <<0, 0>>.  Float rounding  *)
(* is not modelled: arithmetic is exact.                                   *)
(*                                                                         *)
(* Input domain: dimension cells and breakdown cells are never null;       *)
(* clicks and impressions cells may be null (app.py:16-17 handles those).  *)
(***************************************************************************)
EXTENDS Integers, Sequences, FiniteSets, TLC

VARIABLES
    input,       \* snapshot of the table as uploaded (never changes)
    bind,        \* arguments of process_data: column bindings and include_date
    df,          \* the caller's DataFrame object, mutated in place by process_data
    processed_df,\* what main holds in processed_df (None before process_data returns)
    pc           \* "uploaded", "processed", "failed", "aggregated", "reaggregated"

vars == <<input, bind, df, processed_df, pc>>

(***************************** bounds ***************************************)
MaxRows == 3
MaxClicks == 1
MaxImpressions == 1
MaxMetric == 1

(************************* exact numeric cells ******************************)
NaN == <<0, 0>>

Abs(x) == IF x < 0 THEN -x ELSE x

RECURSIVE GCD(_, _)
GCD(a, b) == IF b = 0 THEN a ELSE GCD(b, a % b)

\* n/d in lowest terms, d # 0
Norm(n, d) ==
    LET g == GCD(Abs(n), Abs(d))
        s == IF d < 0 THEN -1 ELSE 1
    IN  <<(s * n) \div g, (s * d) \div g>>

Num(n) == <<n, 1>>

IsNull(v) == v[2] = 0

Add(a, b) == IF IsNull(a) \/ IsNull(b) THEN NaN
             ELSE Norm(a[1] * b[2] + b[1] * a[2], a[2] * b[2])

Mul(a, b) == IF IsNull(a) \/ IsNull(b) THEN NaN
             ELSE Norm(a[1] * b[1], a[2] * b[2])

\* a / b, used only where b > 0
Div(a, b) == IF IsNull(a) \/ IsNull(b) \/ b[1] = 0 THEN NaN
             ELSE Norm(a[1] * b[2], a[2] * b[1])

\* v > 0 (a comparison with NaN is False)
Gt0(v) == ~IsNull(v) /\ v[1] > 0

\* a > b on non-null cells
Gt(a, b) == ~IsNull(a) /\ ~IsNull(b) /\ a[1] * b[2] > b[1] * a[2]

(***************************** DataFrame ************************************)
Columns(d) == DOMAIN d.col

Index(d) == 1 .. d.len

\* the function f with every value computed (TLC evaluates a function
\* expression on each application unless it is stored as a table)
Stored(f) == f @@ <<>>

\* df[name] = series : adds the column or replaces it, other columns untouched
SetCol(d, name, series) ==
    LET s == Stored(series)
    IN  [len |-> d.len,
         col |-> Stored([c \in (DOMAIN d.col) \cup {name} |->
                            IF c = name THEN s ELSE d.col[c]])]

\* Series.fillna(0)
FillNa0(series) ==
    [i \in DOMAIN series |-> IF IsNull(series[i]) THEN Num(0) ELSE series[i]]

\* the key tuple of row i under the columns keys (a sequence of column names)
KeyOf(d, keys, i) == [k \in DOMAIN keys |-> d.col[keys[k]][i]]

\* the index labels of the group row i belongs to
GroupIndex(d, keys, i) == {j \in Index(d) : KeyOf(d, keys, j) = KeyOf(d, keys, i)}

\* Series.sum() over the index labels S, NaN skipped
RECURSIVE SumOver(_, _)
SumOver(series, S) ==
    IF S = {} THEN Num(0)
    ELSE LET i == CHOOSE x \in S : TRUE
             rest == SumOver(series, S \ {i})
         IN  IF IsNull(series[i]) THEN rest ELSE Add(series[i], rest)

\* mutant: the sum taken over the whole column, the grouping forgotten
TransformSumWholeTable(d, keys, name) ==
    [i \in Index(d) |-> SumOver(d.col[name], Index(d))]

\* df.groupby(keys)[name].transform('sum')
TransformSum(d, keys, name) ==
    [i \in Index(d) |-> SumOver(d.col[name], GroupIndex(d, keys, i))]

\* mutant: rank(method='min'), equal values share a rank
RankMinDesc(d, keys, name) ==
    [i \in Index(d) |->
        LET G == GroupIndex(d, keys, i)
            v == d.col[name]
        IN  IF IsNull(v[i]) THEN NaN
            ELSE Num(1 + Cardinality({j \in G : Gt(v[j], v[i])}))]

\* df.groupby(keys)[name].rank(method='first', ascending=False): within the
\* group, larger values first, equal values in order of appearance
RankFirstDesc(d, keys, name) ==
    [i \in Index(d) |->
        LET G == GroupIndex(d, keys, i)
            v == d.col[name]
        IN  IF IsNull(v[i]) THEN NaN
            ELSE Num(1 + Cardinality({j \in G : Gt(v[j], v[i])})
                       + Cardinality({j \in G : j < i /\ v[j] = v[i]}))]

\* df.loc[S, name] = series restricted to S
SetLoc(d, S, name, series) ==
    SetCol(d, name, [i \in Index(d) |-> IF i \in S THEN series[i] ELSE d.col[name][i]])

(***************************** process_data *********************************)
TotalName(c) == "total_" \o c \o "_per_page"

\* mutant: the suffix forgotten, the estimate written over the raw column
EstimatedNameRaw(c) == c

EstimatedName(c) == c \o "_estimated"

\* the state of a run of process_data: the DataFrame so far, and whether a
\* KeyError has been raised
Running(d) == [df |-> d, err |-> FALSE]

KeyError(d) == [df |-> d, err |-> TRUE]

\* app.py:20-22
groupby_columns(b) ==
    IF b.include_date THEN <<b.url_col, b.country_col, b.device_col, b.date_col>>
    ELSE <<b.url_col, b.country_col, b.device_col>>

HasAll(d, keys) == \A k \in DOMAIN keys : keys[k] \in Columns(d)

\* app.py:16 and app.py:17
FillStep(r, c) ==
    IF r.err THEN r
    ELSE IF c \notin Columns(r.df) THEN KeyError(r.df)
    ELSE Running(SetCol(r.df, c, FillNa0(r.df.col[c])))

\* app.py:25
TotalClicksStep(r, b) ==
    IF r.err THEN r
    ELSE IF ~HasAll(r.df, groupby_columns(b)) THEN KeyError(r.df)
    ELSE Running(SetCol(r.df, "total_clicks_by_page",
                        TransformSum(r.df, groupby_columns(b), b.clicks_col)))

\* mutant: floor division of clicks by the group total
PercentageStepFloor(r, b) ==
    IF r.err THEN r
    ELSE LET d == r.df
             t == d.col["total_clicks_by_page"]
             c == d.col[b.clicks_col]
         IN  Running(SetCol(d, "percentage_breakdown",
                 [i \in Index(d) |-> IF Gt0(t[i]) THEN Num(c[i][1] \div t[i][1]) ELSE Num(0)]))

\* app.py:28-31
PercentageStep(r, b) ==
    IF r.err THEN r
    ELSE LET d == r.df
             t == d.col["total_clicks_by_page"]
             c == d.col[b.clicks_col]
         IN  Running(SetCol(d, "percentage_breakdown",
                 [i \in Index(d) |-> IF Gt0(t[i]) THEN Div(c[i], t[i]) ELSE Num(0)]))

\* app.py:35-37, one iteration of the loop
BreakdownOne(d, b, c) ==
    LET d1 == SetCol(d, TotalName(c), TransformSum(d, groupby_columns(b), c))
    IN  SetCol(d1, EstimatedName(c),
               [i \in Index(d) |-> Mul(d1.col["percentage_breakdown"][i], d1.col[c][i])])

\* app.py:34-37, the iterations from position k on
RECURSIVE BreakdownLoop(_, _, _)
BreakdownLoop(r, b, k) ==
    IF r.err \/ k > Len(b.breakdown_columns) THEN r
    ELSE LET c == b.breakdown_columns[k]
         IN  IF c \notin Columns(r.df) THEN KeyError(r.df)
             ELSE BreakdownLoop(Running(BreakdownOne(r.df, b, c)), b, k + 1)

\* app.py:40
RowNumberStep(r, b) ==
    IF r.err THEN r
    ELSE IF b.impressions_col \notin Columns(r.df) THEN KeyError(r.df)
    ELSE Running(SetCol(r.df, "row_number",
                        RankFirstDesc(r.df, groupby_columns(b), b.impressions_col)))

\* mutant: the test on the breakdown columns forgotten
FallbackConditionClicksOnly(d, b, G) ==
    SumOver(d.col[b.clicks_col], G) = Num(0)

\* app.py:44, on the group with index labels G
FallbackCondition(d, b, G) ==
    /\ SumOver(d.col[b.clicks_col], G) = Num(0)
    /\ \E k \in DOMAIN b.breakdown_columns :
           Gt0(SumOver(d.col[b.breakdown_columns[k]], G))

\* app.py:46-47, the iterations from position k on
RECURSIVE ReestimateLoop(_, _, _, _)
ReestimateLoop(d, b, G, k) ==
    IF k > Len(b.breakdown_columns) THEN d
    ELSE LET c == b.breakdown_columns[k]
             s == [i \in Index(d) |-> Mul(d.col["percentage_breakdown"][i], d.col[c][i])]
         IN  ReestimateLoop(SetLoc(d, G, EstimatedName(c), s), b, G, k + 1)

\* mutant: the estimates of the group not recomputed
FallbackBodyNoReestimate(d, b, G) ==
    LET one == [i \in Index(d) |->
                   IF d.col["row_number"][i] = Num(1) THEN Num(1) ELSE Num(0)]
    IN  SetLoc(d, G, "percentage_breakdown", one)

\* app.py:45-47
FallbackBody(d, b, G) ==
    LET one == [i \in Index(d) |->
                   IF d.col["row_number"][i] = Num(1) THEN Num(1) ELSE Num(0)]
    IN  ReestimateLoop(SetLoc(d, G, "percentage_breakdown", one), b, G, 1)

\* mutant: the loop stops after the first group that takes the fallback
RECURSIVE FallbackLoopFirstOnly(_, _, _)
FallbackLoopFirstOnly(d, b, todo) ==
    IF todo = {} THEN d
    ELSE LET i == CHOOSE x \in todo : \A y \in todo : x <= y
             G == GroupIndex(d, groupby_columns(b), i)
         IN  IF FallbackCondition(d, b, G) THEN FallbackBody(d, b, G)
             ELSE FallbackLoopFirstOnly(d, b, todo \ G)

\* app.py:43-47: the loop over the groups not yet visited, each named by its
\* first index label; the groups are disjoint, so the order of the visits
\* does not show in the result
RECURSIVE FallbackLoop(_, _, _)
FallbackLoop(d, b, todo) ==
    IF todo = {} THEN d
    ELSE LET i == CHOOSE x \in todo : \A y \in todo : x <= y
             G == GroupIndex(d, groupby_columns(b), i)
             d1 == IF FallbackCondition(d, b, G) THEN FallbackBody(d, b, G) ELSE d
         IN  FallbackLoop(d1, b, todo \ G)

FallbackStep(r, b) ==
    IF r.err THEN r ELSE Running(FallbackLoop(r.df, b, Index(r.df)))

\* app.py:14-49
process_data(d, b) ==
    LET r1 == FillStep(Running(d), b.clicks_col)
        r2 == FillStep(r1, b.impressions_col)
        r3 == TotalClicksStep(r2, b)
        r4 == PercentageStep(r3, b)
        r5 == BreakdownLoop(r4, b, 1)
        r6 == RowNumberStep(r5, b)
    IN  FallbackStep(r6, b)

(***************************** aggregator ***********************************)
\* the dimension strings of the model in lexicographic order; groupby sorts
\* its result by the key tuple
StrOrder == <<"/a", "/b", "d1", "d2", "gb", "mobile", "q1", "q2">>

Pos(s) == CHOOSE p \in DOMAIN StrOrder : StrOrder[p] = s

\* tuple comparison a < b from position k on
RECURSIVE KeyLess(_, _, _)
KeyLess(a, b, k) ==
    IF k > Len(a) THEN FALSE
    ELSE IF a[k] = b[k] THEN KeyLess(a, b, k + 1)
    ELSE Pos(a[k]) < Pos(b[k])

\* the keys of K in ascending order
RECURSIVE SortKeys(_)
SortKeys(K) ==
    IF K = {} THEN <<>>
    ELSE LET m == CHOOSE x \in K : \A y \in K \ {x} : KeyLess(x, y, 1)
         IN  <<m>> \o SortKeys(K \ {m})

\* app.py:129
group_columns(b) == <<b.url_col, b.country_col, b.device_col, b.query_col>>

\* app.py:132-134: the columns that are summed
aggregation_functions(b) ==
    {b.clicks_col} \cup {EstimatedName(b.breakdown_columns[k]) : k \in DOMAIN b.breakdown_columns}

\* mutant: agg 'first' instead of 'sum'
GroupByFirst(d, keys, summed) ==
    LET ks == SortKeys({KeyOf(d, keys, i) : i \in Index(d)})
        keycols == {keys[k] : k \in DOMAIN keys}
        first(n) == CHOOSE i \in Index(d) :
                       /\ KeyOf(d, keys, i) = ks[n]
                       /\ \A j \in 1 .. i - 1 : KeyOf(d, keys, j) # ks[n]
    IN  [len |-> Len(ks),
         col |-> [c \in keycols \cup summed |->
                    IF c \in keycols
                    THEN LET k == CHOOSE x \in DOMAIN keys : keys[x] = c
                         IN  [n \in 1 .. Len(ks) |-> ks[n][k]]
                    ELSE [n \in 1 .. Len(ks) |-> d.col[c][first(n)]]]]

\* mutant: every output row sums the whole column
GroupBySumWholeTable(d, keys, summed) ==
    LET ks == SortKeys({KeyOf(d, keys, i) : i \in Index(d)})
        keycols == {keys[k] : k \in DOMAIN keys}
    IN  [len |-> Len(ks),
         col |-> [c \in keycols \cup summed |->
                    IF c \in keycols
                    THEN LET k == CHOOSE x \in DOMAIN keys : keys[x] = c
                         IN  [n \in 1 .. Len(ks) |-> ks[n][k]]
                    ELSE [n \in 1 .. Len(ks) |-> SumOver(d.col[c], Index(d))]]]

\* app.py:137: d.groupby(keys).agg({c: 'sum' for c in summed}).reset_index()
GroupBySum(d, keys, summed) ==
    LET ks == SortKeys({KeyOf(d, keys, i) : i \in Index(d)})
        keycols == {keys[k] : k \in DOMAIN keys}
        members(n) == {i \in Index(d) : KeyOf(d, keys, i) = ks[n]}
    IN  [len |-> Len(ks),
         col |-> [c \in keycols \cup summed |->
                    IF c \in keycols
                    THEN LET k == CHOOSE x \in DOMAIN keys : keys[x] = c
                         IN  [n \in 1 .. Len(ks) |-> ks[n][k]]
                    ELSE [n \in 1 .. Len(ks) |-> SumOver(d.col[c], members(n))]]]

(***************************** inputs ***************************************)
RawColumns == {"url", "country", "device", "date", "query",
               "clicks", "impressions", "sessions", "conversions"}

Urls == {"/a", "/b"}
Dates == {"d1", "d2"}
Queries == {"q1", "q2"}

Cells(max) == {Num(v) : v \in 0 .. max}

NullableCells(max) == Cells(max) \cup {NaN}

\* the table read from the CSV, from a sequence of rows
Frame(rows) ==
    [len |-> Len(rows),
     col |-> [c \in RawColumns |-> [i \in 1 .. Len(rows) |-> rows[i][c]]]]

\* the same table without the column c
Without(d, c) == [d EXCEPT !.col = [x \in (DOMAIN d.col) \ {c} |-> d.col[x]]]

NoFrame == [len |-> 0, col |-> <<>>]

\* app.py:84-124: the bindings and check boxes main passes for a CSV with
\* these column names
Bindings(include_date, group_without_date) ==
    [url_col |-> "url", device_col |-> "device", country_col |-> "country",
     date_col |-> IF include_date THEN "date" ELSE "None",
     query_col |-> "query", clicks_col |-> "clicks", impressions_col |-> "impressions",
     breakdown_columns |-> <<"sessions", "conversions">>,
     include_date |-> include_date,
     group_without_date |-> group_without_date]

\* the columns a run of process_data refers to
Referenced(b) ==
    {groupby_columns(b)[k] : k \in DOMAIN groupby_columns(b)}
        \cup {b.clicks_col, b.impressions_col}
        \cup {b.breakdown_columns[k] : k \in DOMAIN b.breakdown_columns}

Start(table, include_date, group_without_date) ==
    /\ input = table
    /\ df = input
    /\ bind = Bindings(include_date, group_without_date)
    /\ processed_df = NoFrame
    /\ pc = "uploaded"

\* up to MaxRows rows of one url and one query with 0/1 metrics, grouped with
\* date; the two dates are interchangeable, so the first row is on d1
InitAllocator ==
    \E n \in 1 .. MaxRows :
      \E rows \in [1 .. n -> [url : {"/a"}, country : {"gb"}, device : {"mobile"},
                              date : Dates, query : {"q1"},
                              clicks : {Num(0), Num(1)},
                              impressions : {Num(0), Num(1)},
                              sessions : {Num(0), Num(1)},
                              conversions : {Num(0)}]] :
        /\ rows[1].date = "d1"
        /\ Start(Frame(rows), TRUE, FALSE)

\* one or two rows with every cell value within the bounds, null clicks and
\* impressions included
InitValues ==
    \E n \in {1, 2} :
      \E rows \in [1 .. n -> [url : {"/a"}, country : {"gb"}, device : {"mobile"},
                              date : Dates, query : {"q1"},
                              clicks : NullableCells(MaxClicks),
                              impressions : NullableCells(MaxImpressions),
                              sessions : Cells(MaxMetric),
                              conversions : Cells(MaxMetric)]] :
        /\ rows[1].date = "d1"
        /\ Start(Frame(rows), TRUE, FALSE)

\* one or two rows grouped without date; a clicks cell may be negative
InitNoDate ==
    \E n \in {1, 2} :
      \E rows \in [1 .. n -> [url : {"/a"}, country : {"gb"}, device : {"mobile"},
                              date : Dates, query : {"q1"},
                              clicks : {NaN, Num(-1), Num(0), Num(1)},
                              impressions : {Num(0), Num(1)},
                              sessions : {Num(0), Num(1)},
                              conversions : {Num(0), Num(1)}]] :
        Start(Frame(rows), FALSE, FALSE)

\* up to MaxRows rows that differ in url, date and query, aggregated after
\* the allocation
InitAggregator ==
    \E n \in 1 .. MaxRows :
      \E rows \in [1 .. n -> [url : Urls, country : {"gb"}, device : {"mobile"},
                              date : Dates, query : Queries,
                              clicks : {Num(1)},
                              impressions : {Num(1)},
                              sessions : {Num(1)},
                              conversions : {Num(0)}]] :
        Start(Frame(rows), TRUE, TRUE)

\* one or two rows of a table that lacks one of the columns
InitAbsent ==
    \E n \in {1, 2} :
      \E rows \in [1 .. n -> [url : {"/a"}, country : {"gb"}, device : {"mobile"},
                              date : Dates, query : {"q1"},
                              clicks : NullableCells(MaxClicks),
                              impressions : {NaN, Num(1)},
                              sessions : {Num(1)},
                              conversions : {Num(1)}]] :
        \E include_date \in BOOLEAN, absent \in RawColumns \ {"query"} :
            Start(Without(Frame(rows), absent), include_date, FALSE)

Init == InitAllocator \/ InitValues \/ InitNoDate \/ InitAggregator \/ InitAbsent

(***************************** actions **************************************)
\* app.py:120-121: process_data mutates the caller's df in place and returns
\* it; a KeyError leaves df as the run had made it and processed_df unbound
ProcessData ==
    /\ pc = "uploaded"
    /\ \E r \in {process_data(df, bind)} :
           /\ df' = r.df
           /\ processed_df' = IF r.err THEN processed_df ELSE r.df
           /\ pc' = IF r.err THEN "failed" ELSE "processed"
    /\ UNCHANGED <<input, bind>>

\* app.py:127-137
Aggregate ==
    /\ pc = "processed"
    /\ bind.group_without_date
    /\ processed_df' = GroupBySum(processed_df, group_columns(bind), aggregation_functions(bind))
    /\ pc' = "aggregated"
    /\ UNCHANGED <<input, bind, df>>

\* the same step applied to its own result
AggregateAgain ==
    /\ pc = "aggregated"
    /\ processed_df' = GroupBySum(processed_df, group_columns(bind), aggregation_functions(bind))
    /\ pc' = "reaggregated"
    /\ UNCHANGED <<input, bind, df>>

Next == ProcessData \/ Aggregate \/ AggregateAgain

Spec == Init /\ [][Next]_vars

(***************************** properties ***********************************)
\* process_data has returned: df is the table it returned
Allocated == pc \in {"processed", "aggregated", "reaggregated"}

\* the group of row i under the key of the run, read from the uploaded table
GroupOf(i) == GroupIndex(input, groupby_columns(bind), i)

\* the uploaded clicks and impressions with nulls counted as 0
ClicksIn == FillNa0(input.col["clicks"])

ImpressionsIn == FillNa0(input.col["impressions"])

BreakdownSet == {bind.breakdown_columns[k] : k \in DOMAIN bind.breakdown_columns}

\* the group of row i has no clicks and some breakdown column with a positive sum
TakesFallback(i) ==
    /\ SumOver(ClicksIn, GroupOf(i)) = Num(0)
    /\ \E c \in BreakdownSet : Gt0(SumOver(input.col[c], GroupOf(i)))

\* C1: after process_data, in every group whose clicks sum to more than 0 the
\* percentage_breakdown values sum to 1, and total_clicks_by_page is the sum of
\* the group's clicks
C1_SharesSumToOne ==
    Allocated =>
        \A i \in Index(df) :
            Gt0(SumOver(ClicksIn, GroupOf(i))) =>
                /\ SumOver(df.col["percentage_breakdown"], GroupOf(i)) = Num(1)
                /\ df.col["total_clicks_by_page"][i] = SumOver(ClicksIn, GroupOf(i))

\* two groups with clicks, one of them shared between two rows
C1_Witness ==
    /\ pc = "processed"
    /\ \E i, j, k \in Index(df) :
          /\ i # j /\ j \in GroupOf(i) /\ k \notin GroupOf(i)
          /\ Gt0(ClicksIn[i]) /\ Gt0(ClicksIn[j]) /\ Gt0(ClicksIn[k])
          /\ df.col["percentage_breakdown"][i] = <<1, 2>>

\* C2: in the returned table every {col}_estimated cell is the row's final
\* percentage_breakdown times the row's raw {col} cell, for every breakdown
\* column, in click-share groups and in fallback groups alike
C2_EstimatedIsShareTimesRaw ==
    Allocated =>
        \A i \in Index(df) : \A c \in BreakdownSet :
            df.col[EstimatedName(c)][i]
                = Mul(df.col["percentage_breakdown"][i], input.col[c][i])

\* a click-share group next to a fallback group that sessions triggered and
\* conversions did not
C2_Witness ==
    /\ pc = "processed"
    /\ \E i, j \in Index(df) :
          /\ Gt0(SumOver(ClicksIn, GroupOf(i)))
          /\ Gt0(df.col["sessions_estimated"][i])
          /\ TakesFallback(j)
          /\ SumOver(input.col["conversions"], GroupOf(j)) = Num(0)
          /\ df.col["percentage_breakdown"][j] = Num(1)
          /\ df.col["sessions_estimated"][j] = input.col["sessions"][j]
          /\ Gt0(input.col["sessions"][j])

\* C3: in every group with no clicks and a breakdown column of positive sum,
\* exactly one row has percentage_breakdown 1, the row with row_number 1, which
\* is the first row of the group with the most impressions; every other row
\* has 0; the estimates of that row are its raw values and all others are 0
C3_FallbackRoutesToTopRow ==
    Allocated =>
        \A i \in Index(df) :
            TakesFallback(i) =>
                LET G == GroupOf(i)
                    top == CHOOSE t \in G :
                              \A j \in G \ {t} :
                                  \/ Gt(ImpressionsIn[t], ImpressionsIn[j])
                                  \/ ImpressionsIn[t] = ImpressionsIn[j] /\ t < j
                IN  /\ df.col["row_number"][top] = Num(1)
                    /\ \A j \in G :
                          /\ df.col["percentage_breakdown"][j]
                                = IF j = top THEN Num(1) ELSE Num(0)
                          /\ \A c \in BreakdownSet :
                                df.col[EstimatedName(c)][j]
                                    = IF j = top THEN input.col[c][j] ELSE Num(0)

\* the example of the spec scaled into the bounds: a group of three rows with no
\* clicks whose middle row has the most impressions, sessions on every row
C3_Witness ==
    /\ pc = "processed"
    /\ df.len = 3
    /\ GroupOf(1) = {1, 2, 3}
    /\ TakesFallback(1)
    /\ Gt(ImpressionsIn[2], ImpressionsIn[1]) /\ Gt(ImpressionsIn[2], ImpressionsIn[3])
    /\ \A j \in 1 .. 3 : Gt0(input.col["sessions"][j])
    /\ df.col["percentage_breakdown"] = <<Num(0), Num(1), Num(0)>>
    /\ df.col["sessions_estimated"] = <<Num(0), input.col["sessions"][2], Num(0)>>

\* C4: in every group of size n the row_number values are a permutation of
\* 1..n; more impressions means a smaller row_number; among equal impressions
\* the earlier row has the smaller row_number; null impressions rank as 0
C4_RowNumberIsStableRank ==
    Allocated =>
        \A i \in Index(df) :
            LET G == GroupOf(i)
                rn == df.col["row_number"]
            IN  /\ {rn[j] : j \in G} = {Num(k) : k \in 1 .. Cardinality(G)}
                /\ \A j \in G :
                      /\ Gt(ImpressionsIn[j], ImpressionsIn[i]) => Gt(rn[i], rn[j])
                      /\ (ImpressionsIn[j] = ImpressionsIn[i] /\ j < i) => Gt(rn[i], rn[j])

\* impressions [a, a, b] with b > a in one group give row_number [2, 3, 1]
C4_Witness ==
    /\ pc = "processed"
    /\ df.len = 3
    /\ GroupOf(1) = {1, 2, 3}
    /\ ImpressionsIn[1] = ImpressionsIn[2]
    /\ Gt(ImpressionsIn[3], ImpressionsIn[1])
    /\ df.col["row_number"] = <<Num(2), Num(3), Num(1)>>

\* C5: process_data returns as many rows as it was given, in the same order;
\* every uploaded column other than clicks and impressions (the key columns,
\* the query column, the raw breakdown columns) is as uploaded; clicks and
\* impressions are as uploaded with nulls replaced by 0
C5_RowsAndRawColumnsKept ==
    Allocated =>
        /\ df.len = input.len
        /\ \A c \in Columns(input) \ {"clicks", "impressions"} :
              c \in Columns(df) /\ df.col[c] = input.col[c]
        /\ df.col["clicks"] = ClicksIn
        /\ df.col["impressions"] = ImpressionsIn

\* a run that filled a null click and took the fallback in that row's group:
\* the row keeps its raw sessions while its estimate differs from them
C5_Witness ==
    /\ pc = "processed"
    /\ \E i, j \in Index(df) :
          /\ IsNull(input.col["clicks"][i])
          /\ TakesFallback(i)
          /\ df.col["sessions_estimated"][i] # input.col["sessions"][i]
          /\ Gt0(input.col["sessions"][j])
          /\ Gt0(df.col["sessions_estimated"][j])

\* the rows of the allocated table df that carry the key of row n of the
\* aggregated table
MembersOf(n) ==
    {i \in Index(df) : KeyOf(df, group_columns(bind), i)
                          = KeyOf(processed_df, group_columns(bind), n)}

\* no (url, country, device, query) tuple occurs twice in the allocated table
UniqueOnKey ==
    \A i, j \in Index(df) :
        KeyOf(df, group_columns(bind), i) = KeyOf(df, group_columns(bind), j) => i = j

\* C6: the aggregator returns one row per distinct (url, country, device,
\* query) tuple of the allocated rows; clicks and every {col}_estimated are
\* the sums over the rows of that tuple; no other column is present
C6_AggregatorOneRowPerKey ==
    pc = "aggregated" =>
        LET keys == group_columns(bind)
            K == {KeyOf(df, keys, i) : i \in Index(df)}
            summed == {"clicks"} \cup {EstimatedName(c) : c \in BreakdownSet}
        IN  /\ processed_df.len = Cardinality(K)
            /\ {KeyOf(processed_df, keys, n) : n \in Index(processed_df)} = K
            /\ Columns(processed_df) = {"url", "country", "device", "query"} \cup summed
            /\ \A n \in Index(processed_df) : \A c \in summed :
                  processed_df.col[c][n] = SumOver(df.col[c], MembersOf(n))

\* three rows collapse to two; the collapsed row adds clicks and estimates of
\* two dates
C6_Witness ==
    /\ pc = "aggregated"
    /\ df.len = 3
    /\ processed_df.len = 2
    /\ \E n \in Index(processed_df) :
          /\ Cardinality(MembersOf(n)) = 2
          /\ \A i \in MembersOf(n) : Gt0(df.col["clicks"][i])
                                     /\ Gt0(df.col["sessions_estimated"][i])
          /\ processed_df.col["clicks"][n] = Num(2)

\* C7: when no key tuple occurs twice in the table, aggregating the aggregated
\* table again changes nothing
C7_AggregatorIdempotent ==
    [][(pc = "aggregated" /\ pc' = "reaggregated" /\ UniqueOnKey)
          => processed_df' = processed_df]_vars

\* three rows of three keys, uploaded out of key order, aggregated twice
C7_Witness ==
    /\ pc = "reaggregated"
    /\ UniqueOnKey
    /\ df.len = 3
    /\ KeyLess(KeyOf(df, group_columns(bind), 2), KeyOf(df, group_columns(bind), 1), 1)
    /\ \A n \in Index(processed_df) : Gt0(processed_df.col["sessions_estimated"][n])

\* C8: when a column process_data refers to is absent the run fails and the
\* caller's table is exactly as uploaded
C8_FailsAtomically ==
    (pc # "uploaded" /\ ~(Referenced(bind) \subseteq Columns(input)))
        => (pc = "failed" /\ df = input)

\* C9: with non-negative clicks every percentage_breakdown lies in [0, 1];
\* in a group without clicks that does not take the fallback every
\* percentage_breakdown and every estimate is 0
C9_ShareInUnitInterval ==
    (Allocated /\ \A i \in Index(df) : ~Gt(Num(0), ClicksIn[i])) =>
        \A i \in Index(df) :
            LET p == df.col["percentage_breakdown"][i]
            IN  /\ ~IsNull(p) /\ ~Gt(Num(0), p) /\ ~Gt(p, Num(1))
                /\ (SumOver(ClicksIn, GroupOf(i)) = Num(0) /\ ~TakesFallback(i)) =>
                      /\ p = Num(0)
                      /\ \A c \in BreakdownSet : df.col[EstimatedName(c)][i] = Num(0)

\* a group of two rows with impressions but no clicks and no breakdown metric,
\* next to a row that holds all the clicks of its group
C9_Witness ==
    /\ pc = "processed"
    /\ \E i, j, k \in Index(df) :
          /\ i # j /\ j \in GroupOf(i)
          /\ SumOver(ClicksIn, GroupOf(i)) = Num(0)
          /\ ~TakesFallback(i)
          /\ Gt0(ImpressionsIn[i])
          /\ df.col["percentage_breakdown"][k] = Num(1)

\* C10: in a group whose rows all carry the same raw value v of a breakdown
\* column, the estimates of that column sum to v when the group has clicks and
\* when the group takes the fallback
C10_GroupMetricConserved ==
    Allocated =>
        \A i \in Index(df) : \A c \in BreakdownSet :
            ( /\ \A j \in GroupOf(i) : input.col[c][j] = input.col[c][i]
              /\ Gt0(SumOver(ClicksIn, GroupOf(i))) \/ TakesFallback(i) )
            => SumOver(df.col[EstimatedName(c)], GroupOf(i)) = input.col[c][i]

\* a group of two rows that halve the same sessions value, next to a group
\* that takes the fallback
C10_Witness ==
    /\ pc = "processed"
    /\ \E i, j, k \in Index(df) :
          /\ i # j /\ j \in GroupOf(i)
          /\ Gt0(input.col["sessions"][i])
          /\ input.col["sessions"][j] = input.col["sessions"][i]
          /\ df.col["percentage_breakdown"][i] = <<1, 2>>
          /\ df.col["percentage_breakdown"][j] = <<1, 2>>
          /\ TakesFallback(k)
          /\ df.col["sessions_estimated"][k] = input.col["sessions"][k]

====
